---- MODULE Spec2Model ----
(***************************************************************************)
(* quantum-pack: pattern-substituting preprocessor + Huffman coder.        *)
(* Byte buffers are sequences of integers 0..255.  Option<T> is a sequence *)
(* of length 0 (None) or 1 (Some).  A call that panics (an unwrap of None, *)
(* an index out of bounds) yields the one-element sequence Panic.          *)
(***************************************************************************)
EXTENDS Integers, Sequences, FiniteSets, TLC

VARIABLES
    pc,                 \* position of the driver of the specification in play
    data,               \* the input buffer of the call under study
    num_threads,        \* std::thread::available_parallelism() of the machine
    preprocessor,       \* the Preprocessor of compress / of the test
    threads,            \* parallel_transform_data: chunk index -> Option<result>
    finished,           \* chunk indexes in the order the workers completed
    processed_data,     \* output of preprocess
    compressed,         \* <<payload, frequency_table, serialized_dictionary>>
    decompressed,       \* output of decompress / reverse_transform_data
    restorer,           \* the Preprocessor built by decompress
    calls,              \* preprocess calls made on preprocessor
    run,                \* 1 or 2: which compress call of the same buffer
    first_run,          \* Option<result of run 1>
    entry_order,        \* order in which table entries enter the heap
    huffman_tree,       \* Option<HuffmanNode>
    codes,              \* BTreeMap<u8, Vec<u8>>
    encoded_data,       \* output of huffman_encode, or a foreign payload
    decoded_data,       \* output of huffman_decode
    table,              \* AdaptiveDictionary.frequencies under serialization
    serialized,         \* serialize_frequency_table(table)
    table_back,         \* deserialize_frequency_table(serialized)
    container,          \* Option<the bytes compress_file wrote to output_path>
    input_file,         \* the bytes decompress_file read from input_path
    sections,           \* Option<<<frequency_table, serialized_dictionary,
                        \*          compressed_data>>> as decompress_file split them
    output_file         \* Option<the bytes decompress_file wrote to output_path>

vars == <<pc, data, num_threads, preprocessor, threads, finished, processed_data,
          compressed, decompressed, restorer, calls, run, first_run, entry_order,
          huffman_tree, codes, encoded_data, decoded_data, table, serialized,
          table_back, container, input_file, sections, output_file>>

----------------------------------------------------------------------------
(* Bounds of the model                                                      *)

\* longest enumerated input buffer
MaxLen == 4
\* largest available_parallelism() tried
MaxThreads == 2
\* longest buffer a Huffman tree is built over directly
MaxTreeData == 3
\* longest enumerated foreign Huffman payload, trailer byte included
MaxPayload == 2
\* preprocess calls made on one Preprocessor
MaxCalls == 2
\* longest enumerated stream handed to reverse_transform_data directly
MaxStream == 2

----------------------------------------------------------------------------
(* Generic helpers                                                          *)

Panic == <<-1>>

Min(a, b) == IF a <= b THEN a ELSE b
Max(a, b) == IF a >= b THEN a ELSE b

RECURSIVE Pow2(_)
Pow2(n) == IF n = 0 THEN 1 ELSE 2 * Pow2(n - 1)

\* data[from..to) with Rust's 0-based half-open indexes
Slice(s, from, to) == SubSeq(s, from + 1, to)

SeqsUpTo(S, n) == UNION {[1..k -> S] : k \in 0..n}

Range(s) == {s[i] : i \in 1..Len(s)}

\* the permutations of a finite set, as sequences
Perms(S) == {s \in [1..Cardinality(S) -> S] : Range(s) = S}

\* the elements of a set of integers in ascending order (BTreeMap iteration)
RECURSIVE Ascending(_)
Ascending(S) ==
    IF S = {} THEN <<>>
    ELSE LET m == CHOOSE x \in S : \A y \in S : x <= y
         IN <<m>> \o Ascending(S \ {m})

\* the empty map
EmptyMap == <<>>

\* BTreeMap::insert / HashMap::insert: the new value replaces the old one
Insert(map, k, v) == (k :> v) @@ map

----------------------------------------------------------------------------
(* src/huffman/mod.rs                                                       *)

HuffmanNode(frequency, value, left, right) ==
    [frequency |-> frequency, value |-> value, left |-> left, right |-> right]

HuffmanTuple(frequency, value, left, right) ==
    [frequency |-> frequency, value |-> value, left |-> left, right |-> right]

\* a <= b under impl Ord for HuffmanTuple: a.cmp(b) = b.frequency.cmp(a.frequency)
TupleLe(a, b) == b.frequency <= a.frequency
TupleLt(a, b) == ~TupleLe(b, a)

\* BinaryHeap::sift_up(start, pos) with the hole's element elt; 1-based positions
RECURSIVE SiftUp(_, _, _, _)
SiftUp(heap, elt, start, pos) ==
    IF pos > start /\ ~TupleLe(elt, heap[pos \div 2])
    THEN SiftUp([heap EXCEPT ![pos] = heap[pos \div 2]], elt, start, pos \div 2)
    ELSE [heap EXCEPT ![pos] = elt]

\* BinaryHeap::push
HeapPush(heap, item) == SiftUp(Append(heap, item), item, 1, Len(heap) + 1)

\* BinaryHeap::sift_down_to_bottom: the hole goes down to a leaf along the
\* greater children, then the element is sifted up from there
RECURSIVE SiftDownToBottom(_, _, _)
SiftDownToBottom(heap, elt, pos) ==
    LET end == Len(heap)
        child == 2 * pos
    IN IF child + 1 <= end
       THEN LET c == IF TupleLe(heap[child], heap[child + 1]) THEN child + 1 ELSE child
            IN SiftDownToBottom([heap EXCEPT ![pos] = heap[c]], elt, c)
       ELSE IF child = end
            THEN SiftUp([heap EXCEPT ![pos] = heap[child]], elt, 1, child)
            ELSE SiftUp(heap, elt, 1, pos)

\* BinaryHeap::pop on a non-empty heap: [item, heap]
HeapPop(heap) ==
    LET last == heap[Len(heap)]
        rest == SubSeq(heap, 1, Len(heap) - 1)
    IN IF rest = <<>> THEN [item |-> last, heap |-> <<>>]
       ELSE [item |-> rest[1], heap |-> SiftDownToBottom(rest, last, 1)]

\* BinaryHeap::sift_down_range(pos, end), used by the heapify of collect()
RECURSIVE SiftDownRange(_, _, _)
SiftDownRange(heap, elt, pos) ==
    LET end == Len(heap)
        child == 2 * pos
    IN IF child + 1 <= end
       THEN LET c == IF TupleLe(heap[child], heap[child + 1]) THEN child + 1 ELSE child
            IN IF TupleLe(heap[c], elt) THEN [heap EXCEPT ![pos] = elt]
               ELSE SiftDownRange([heap EXCEPT ![pos] = heap[c]], elt, c)
       ELSE IF child = end /\ TupleLt(elt, heap[child])
            THEN [heap EXCEPT ![pos] = heap[child], ![child] = elt]
            ELSE [heap EXCEPT ![pos] = elt]

\* BinaryHeap::from(Vec): sift_down(n) for n = len/2 - 1 down to 0
RECURSIVE Rebuild(_, _)
Rebuild(heap, n) ==
    IF n = 0 THEN heap ELSE Rebuild(SiftDownRange(heap, heap[n], n), n - 1)

Heapify(items) == Rebuild(items, Len(items) \div 2)

\* the leaves pushed for the table entries, in the order they are iterated
RECURSIVE PushAll(_, _, _)
PushAll(heap, frequencies, order) ==
    IF order = <<>> THEN heap
    ELSE PushAll(HeapPush(heap, HuffmanTuple(frequencies[Head(order)], Head(order), <<>>, <<>>)),
                 frequencies, Tail(order))

\* while heap.len() > 1 { pop left; pop right; push merged }
RECURSIVE MergeLoop(_)
MergeLoop(heap) ==
    IF Len(heap) <= 1 THEN heap
    ELSE LET l == HeapPop(heap)
             r == HeapPop(l.heap)
             left == l.item
             right == r.item
             merged == HuffmanTuple(left.frequency + right.frequency,
                                    Min(left.value, right.value),
                                    <<HuffmanNode(left.frequency, left.value, left.left, left.right)>>,
                                    <<HuffmanNode(right.frequency, right.value, right.left, right.right)>>)
         IN MergeLoop(HeapPush(r.heap, merged))

\* heap.pop().map(|tuple| Box::new(HuffmanNode::new(..)))
PopRoot(heap) ==
    IF heap = <<>> THEN <<>>
    ELSE LET t == HeapPop(heap).item
         IN <<HuffmanNode(t.frequency, t.value, t.left, t.right)>>

\* build_huffman_tree_with_dictionary; order is the iteration order of
\* dictionary.get_frequencies()
build_huffman_tree_with_dictionary(frequencies, order) ==
    LET heap == PushAll(<<>>, frequencies, order)
    IN IF Len(heap) = 1
       THEN LET single_node == HeapPop(heap).item
            IN <<HuffmanNode(single_node.frequency, single_node.value, <<>>, <<>>)>>
       ELSE PopRoot(MergeLoop(heap))

\* the per-byte counts of a buffer
CountOf(buf, b) == Cardinality({i \in 1..Len(buf) : buf[i] = b})
Frequencies(buf) == [b \in Range(buf) |-> CountOf(buf, b)]

\* build_huffman_tree; order is the iteration order of the HashMap
RECURSIVE CollectLeaves(_, _)
CollectLeaves(frequencies, order) ==
    IF order = <<>> THEN <<>>
    ELSE <<HuffmanTuple(frequencies[Head(order)], Head(order), <<>>, <<>>)>>
         \o CollectLeaves(frequencies, Tail(order))

build_huffman_tree(buf, order) ==
    PopRoot(MergeLoop(Heapify(CollectLeaves(Frequencies(buf), order))))

IsLeaf(node) == node.left = <<>> /\ node.right = <<>>

\* generate_huffman_codes: the entries inserted below node, prefix being the
\* path from the root
RECURSIVE GenerateCodes(_, _)
GenerateCodes(node, prefix) ==
    IF IsLeaf(node) THEN (node.value :> prefix)
    ELSE LET l == IF node.left # <<>>
                  THEN GenerateCodes(node.left[1], Append(prefix, 0)) ELSE EmptyMap
             r == IF node.right # <<>>
                  THEN GenerateCodes(node.right[1], Append(prefix, 1)) ELSE EmptyMap
         IN r @@ l

generate_huffman_codes(node) == GenerateCodes(node, <<>>)

\* current_bitstring of huffman_encode: the codes of the bytes that have one
RECURSIVE Bitstring(_, _)
Bitstring(buf, cs) ==
    IF buf = <<>> THEN <<>>
    ELSE (IF Head(buf) \in DOMAIN cs THEN cs[Head(buf)] ELSE <<>>) \o Bitstring(Tail(buf), cs)

\* a fold that puts the first bit in the least significant place
RECURSIVE FoldBitsLsbFirst(_, _)
FoldBitsLsbFirst(acc, bits) ==
    IF bits = <<>> THEN acc ELSE (Head(bits) + 2 * FoldBitsLsbFirst(acc, Tail(bits))) % 256

\* fold(0, |acc, &bit| (acc << 1) | bit) over up to 8 bits
RECURSIVE FoldBits(_, _)
FoldBits(acc, bits) ==
    IF bits = <<>> THEN acc ELSE FoldBits((2 * acc + Head(bits)) % 256, Tail(bits))

RECURSIVE PackFull(_, _)
PackFull(bits, i) ==
    IF i + 8 <= Len(bits)
    THEN <<FoldBits(0, Slice(bits, i, i + 8))>> \o PackFull(bits, i + 8)
    ELSE <<>>

huffman_encode(buf, cs) ==
    LET current_bitstring == Bitstring(buf, cs)
        len == Len(current_bitstring)
        i == 8 * (len \div 8)
        remaining_bits == Slice(current_bitstring, i, len)
        last == IF i < len
                THEN <<(FoldBits(0, remaining_bits) * Pow2(8 - Len(remaining_bits))) % 256>>
                ELSE <<>>
        bits_in_last_byte == len % 8
        trailer == IF bits_in_last_byte = 0 /\ current_bitstring # <<>>
                   THEN 8 ELSE bits_in_last_byte
    IN PackFull(current_bitstring, 0) \o last \o <<trailer>>

\* the bits of a byte taken least significant first
BitOfLsbFirst(byte, i) == (byte \div Pow2(i)) % 2

\* (byte >> (7 - i)) & 1
BitOf(byte, i) == (byte \div Pow2(7 - i)) % 2

\* the bits huffman_decode walks: 8 of every byte before the second-to-last,
\* bits_in_last_byte of the second-to-last
PayloadBits(encoded) ==
    LET n == Len(encoded)
        bits_in_last_byte == encoded[n]
        BitsAt(index) == [i \in 1..(IF index = n - 1 THEN bits_in_last_byte ELSE 8) |->
                             BitOf(encoded[index], i - 1)]
        RECURSIVE From(_)
        From(index) == IF index > n - 1 THEN <<>> ELSE BitsAt(index) \o From(index + 1)
    IN From(1)

\* the walk of huffman_decode: [out, node, failed] after the bits
RECURSIVE Walk(_, _, _, _)
Walk(bits, root, current_node, out) ==
    IF bits = <<>> THEN [out |-> out, node |-> current_node, failed |-> FALSE]
    ELSE LET child == IF Head(bits) = 0 THEN current_node.left ELSE current_node.right
         IN IF child = <<>> THEN [out |-> out, node |-> current_node, failed |-> TRUE]
            ELSE IF IsLeaf(child[1])
                 THEN Walk(Tail(bits), root, root, Append(out, child[1].value))
                 ELSE Walk(Tail(bits), root, child[1], out)

huffman_decode(encoded, tree) ==
    IF encoded = <<>> THEN <<>>
    ELSE LET w == Walk(PayloadBits(encoded), tree, tree, <<>>)
         IN IF w.failed THEN Panic ELSE w.out

----------------------------------------------------------------------------
(* src/preprocessor/mod.rs                                                  *)

\* Preprocessor::new; prediction_model is written by preprocess and read by
\* nothing, so it is not carried
NewPreprocessor ==
    [pattern_map |-> EmptyMap, reverse_pattern_map |-> EmptyMap, next_code |-> 1,
     max_pattern_length |-> 4, code_frequency |-> EmptyMap]

\* u16::to_be_bytes
U16ToBe(code) == <<(code \div 256) % 256, code % 256>>

\* a code read from its first byte alone
U16FromFirstByte(hi, lo) == hi

\* u16::from_be_bytes
U16FromBe(hi, lo) == 256 * hi + lo

RECURSIVE SerializeRecords(_, _)
SerializeRecords(reverse_pattern_map, order) ==
    IF order = <<>> THEN <<>>
    ELSE LET code == Head(order)
             pattern == reverse_pattern_map[code]
         IN U16ToBe(code) \o <<Len(pattern) % 256>> \o pattern
            \o SerializeRecords(reverse_pattern_map, Tail(order))

serialize_dictionary(p) ==
    SerializeRecords(p.reverse_pattern_map, Ascending(DOMAIN p.reverse_pattern_map))

\* the loop of deserialize_dictionary from index i; ok is FALSE when an index
\* runs past the end of the buffer (the call panics)
RECURSIVE DeserializeLoop(_, _, _, _)
DeserializeLoop(bytes, i, pattern_map, reverse_pattern_map) ==
    IF i >= Len(bytes)
    THEN [ok |-> TRUE, pattern_map |-> pattern_map, reverse_pattern_map |-> reverse_pattern_map]
    ELSE IF i + 3 > Len(bytes) \/ i + 3 + bytes[i + 3] > Len(bytes)
         THEN [ok |-> FALSE, pattern_map |-> pattern_map, reverse_pattern_map |-> reverse_pattern_map]
         ELSE LET code == U16FromBe(bytes[i + 1], bytes[i + 2])
                  pattern_len == bytes[i + 3]
                  pattern == Slice(bytes, i + 3, i + 3 + pattern_len)
              IN DeserializeLoop(bytes, i + 3 + pattern_len,
                                 Insert(pattern_map, pattern, code),
                                 Insert(reverse_pattern_map, code, pattern))

\* deserialize_dictionary: the Preprocessor afterwards, ok telling whether the
\* call returned
deserialize_dictionary(p, bytes) ==
    LET r == DeserializeLoop(bytes, 0, p.pattern_map, p.reverse_pattern_map)
    IN [ok |-> r.ok,
        p |-> [p EXCEPT !.pattern_map = r.pattern_map,
                        !.reverse_pattern_map = r.reverse_pattern_map]]

determine_max_pattern_length(buf) ==
    LET unique_bytes == Cardinality(Range(buf))
    IN IF unique_bytes <= 16 THEN 2 ELSE IF unique_bytes <= 32 THEN 3 ELSE 4

\* data.windows(size)
Windows(buf, size) == {Slice(buf, i, i + size) : i \in 0..(Len(buf) - size)}

WindowCount(buf, w) ==
    Cardinality({i \in 0..(Len(buf) - Len(w)) : Slice(buf, i, i + Len(w)) = w})

\* Vec<u8>::cmp = Less
RECURSIVE LexLess(_, _)
LexLess(a, b) ==
    IF b = <<>> THEN FALSE
    ELSE IF a = <<>> THEN TRUE
    ELSE IF Head(a) # Head(b) THEN Head(a) < Head(b)
    ELSE LexLess(Tail(a), Tail(b))

\* a comparator that puts the rarest pattern first
SortsBeforeAscending(freq, a, b) ==
    \/ freq[a] < freq[b]
    \/ freq[a] = freq[b] /\ LexLess(a, b)

\* the comparator of patterns.sort_unstable_by: a sorts before b
SortsBefore(freq, a, b) ==
    \/ freq[a] > freq[b]
    \/ freq[a] = freq[b] /\ LexLess(a, b)

\* frequency_map of identify_patterns with nothing dropped
WholeFrequencyMap(buf, max_pattern_length) ==
    LET candidates == UNION {Windows(buf, size) : size \in 1..max_pattern_length}
    IN [w \in candidates |-> WindowCount(buf, w)]

\* frequency_map of identify_patterns after retain(freq > 1)
RetainedFrequencyMap(buf, max_pattern_length) ==
    LET candidates == UNION {Windows(buf, size) : size \in 1..max_pattern_length}
        kept == {w \in candidates : WindowCount(buf, w) > 1}
    IN [w \in kept |-> WindowCount(buf, w)]

\* position (from 1) of pattern w in the sorted vector
SortedPosition(freq, w) == 1 + Cardinality({v \in DOMAIN freq : SortsBefore(freq, v, w)})

\* the loop over patterns.iter().take(254) from the k-th pattern on: sorted[j]
\* gets the code next_code + (j - k).  The patterns are distinct and the codes
\* are taken in sequence, so the inserts do not disturb one another, and each
\* replaces what the maps held under the same key
InsertPatterns(p, freq, sorted, k) ==
    LET indexes == k..Len(sorted)
        CodeAt(j) == p.next_code + (j - k)
        IndexOf(pattern) == CHOOSE j \in indexes : sorted[j] = pattern
        IndexAt(code) == k + (code - p.next_code)
    IN [p EXCEPT !.next_code = @ + Cardinality(indexes),
                 !.pattern_map =
                     [pattern \in {sorted[j] : j \in indexes} |-> CodeAt(IndexOf(pattern))] @@ @,
                 !.reverse_pattern_map =
                     [code \in {CodeAt(j) : j \in indexes} |-> sorted[IndexAt(code)]] @@ @,
                 !.code_frequency =
                     [code \in {CodeAt(j) : j \in indexes} |-> freq[sorted[IndexAt(code)]]] @@ @]

identify_patterns(p, buf) ==
    LET freq == RetainedFrequencyMap(buf, p.max_pattern_length)
        n == Cardinality(DOMAIN freq)
        position == [w \in DOMAIN freq |-> SortedPosition(freq, w)] @@ EmptyMap
        patterns == [k \in 1..n |-> CHOOSE w \in DOMAIN freq : position[w] = k]
    IN InsertPatterns(p, freq, SubSeq(patterns, 1, Min(n, 254)), 1)

\* vec![code as u8] or vec![0xFF, code as u8]
encode_code(code, frequency) ==
    IF frequency > 100 THEN <<code % 256>> ELSE <<255, code % 256>>

RECURSIVE variable_length_encode(_, _)
variable_length_encode(p, buf) ==
    IF buf = <<>> THEN <<>>
    ELSE LET byte == Head(buf)
             out == IF <<byte>> \in DOMAIN p.pattern_map
                    THEN LET code == p.pattern_map[<<byte>>]
                             frequency == IF code \in DOMAIN p.code_frequency
                                          THEN p.code_frequency[code] ELSE 1
                         IN encode_code(code, frequency)
                    ELSE <<byte>>
         IN out \o variable_length_encode(p, Tail(buf))

\* the sizes tried at position i that hit the pattern map, longest first
MatchSizes(p, buf, i) ==
    {size \in 2..Min(p.max_pattern_length, Len(buf) - i) :
        Slice(buf, i, i + size) \in DOMAIN p.pattern_map}

\* the first pass of transform_data, from position i
RECURSIVE Substitute(_, _, _)
Substitute(p, buf, i) ==
    IF i >= Len(buf) THEN <<>>
    ELSE LET sizes == MatchSizes(p, buf, i)
         IN IF sizes # {}
            THEN LET size == CHOOSE s \in sizes : \A t \in sizes : t <= s
                 IN <<p.pattern_map[Slice(buf, i, i + size)] % 256>> \o Substitute(p, buf, i + size)
            ELSE <<buf[i + 1]>> \o Substitute(p, buf, i + 1)

transform_data(p, buf) == variable_length_encode(p, Substitute(p, buf, 0))

\* the first pass of transform_data, from position i: for each byte pushed,
\* whether it is the code of a matched pattern (found_match) or data[i]
RECURSIVE SubstituteMatched(_, _, _)
SubstituteMatched(p, buf, i) ==
    IF i >= Len(buf) THEN <<>>
    ELSE LET sizes == MatchSizes(p, buf, i)
         IN IF sizes # {}
            THEN LET size == CHOOSE s \in sizes : \A t \in sizes : t <= s
                 IN <<TRUE>> \o SubstituteMatched(p, buf, i + size)
            ELSE <<FALSE>> \o SubstituteMatched(p, buf, i + 1)

\* chunk_size of parallel_transform_data
ChunkSize(p, buf, n_threads) == Max(Len(buf) \div n_threads, p.max_pattern_length)

\* data.chunks(chunk_size): the number of chunks and chunk index (from 0)
NumChunks(buf, chunk_size) == (Len(buf) + chunk_size - 1) \div chunk_size

\* data.chunks_exact(chunk_size): a shorter last chunk is left out
ChunkExact(buf, chunk_size, index) ==
    IF (index + 1) * chunk_size <= Len(buf)
    THEN Slice(buf, index * chunk_size, (index + 1) * chunk_size)
    ELSE <<>>

Chunk(buf, chunk_size, index) ==
    Slice(buf, index * chunk_size, Min((index + 1) * chunk_size, Len(buf)))

\* a join that takes the results as the workers complete
JoinInCompletionOrder(n_chunks, completion) ==
    IF Len(completion) = n_chunks THEN completion ELSE [k \in 1..n_chunks |-> k - 1]

\* threads.sort_by_key(|&(index, _)| index): the order in which results are joined
JoinOrder(n_chunks, completion) == [k \in 1..n_chunks |-> k - 1]

RECURSIVE Concat(_, _)
\* a join that stops after the first result
ConcatFirstOnly(results, order) ==
    IF order = <<>> THEN <<>> ELSE results[Head(order)]

\* transformed_data.extend(thread.join().unwrap()) over the sorted threads
Concat(results, order) ==
    IF order = <<>> THEN <<>> ELSE results[Head(order)] \o Concat(results, Tail(order))

\* reverse_transform_data from position i; Panic when data[i] is read past the end
RECURSIVE ReverseFrom(_, _, _, _)
ReverseFrom(p, buf, i, decoded) ==
    IF i >= Len(buf) THEN decoded
    ELSE IF buf[i + 1] = 255
         THEN IF i + 1 >= Len(buf) THEN Panic
              ELSE LET code == buf[i + 2]
                   IN ReverseFrom(p, buf, i + 2,
                                  IF code \in DOMAIN p.reverse_pattern_map
                                  THEN decoded \o p.reverse_pattern_map[code]
                                  ELSE decoded)
         ELSE LET code == buf[i + 1]
              IN ReverseFrom(p, buf, i + 1,
                             IF code \in DOMAIN p.reverse_pattern_map
                             THEN decoded \o p.reverse_pattern_map[code]
                             ELSE Append(decoded, buf[i + 1]))

\* a reverse pass that starts at the second byte
ReverseSkippingFirst(p, buf) == ReverseFrom(p, buf, 1, <<>>)

reverse_transform_data(p, buf) == ReverseFrom(p, buf, 0, <<>>)

----------------------------------------------------------------------------
(* AdaptiveDictionary as src/compression/mod.rs uses it (new(), update,      *)
(* get_frequencies, the frequencies field): a byte -> count table iterated   *)
(* in ascending byte order.                                                  *)

NewFrequencies == EmptyMap

\* AdaptiveDictionary::update: one count per byte of the buffer (a u32 count
\* cannot wrap for the buffer lengths of the model)
dictionary_update(frequencies, buf) ==
    [b \in (DOMAIN frequencies) \cup Range(buf) |->
        (IF b \in DOMAIN frequencies THEN frequencies[b] ELSE 0) + CountOf(buf, b)]

\* the order in which get_frequencies() is iterated
get_frequencies_order(frequencies) == Ascending(DOMAIN frequencies)

----------------------------------------------------------------------------
(* src/compression/mod.rs                                                   *)

\* the four bytes of a count, least significant first
U32ToLe(n) == <<n % 256, (n \div 256) % 256, (n \div 65536) % 256, (n \div 16777216) % 256>>

\* u32::to_be_bytes
U32ToBe(n) == <<(n \div 16777216) % 256, (n \div 65536) % 256, (n \div 256) % 256, n % 256>>

\* u32::from_be_bytes
U32FromBe(b) == 16777216 * b[1] + 65536 * b[2] + 256 * b[3] + b[4]

\* the filter of serialize_frequency_table
Serializes(frequency) == frequency > 0

RECURSIVE SerializeEntries(_, _)
SerializeEntries(frequencies, order) ==
    IF order = <<>> THEN <<>>
    ELSE LET byte == Head(order)
             frequency == frequencies[byte]
         IN (IF Serializes(frequency) THEN <<byte>> \o U32ToBe(frequency) ELSE <<>>)
            \o SerializeEntries(frequencies, Tail(order))

serialize_frequency_table(frequencies) ==
    SerializeEntries(frequencies, get_frequencies_order(frequencies))

\* serialized.chunks_exact(5): a trailing remainder is ignored
RECURSIVE DeserializeChunks(_, _)
DeserializeChunks(bytes, frequencies) ==
    IF Len(bytes) < 5 THEN frequencies
    ELSE DeserializeChunks(SubSeq(bytes, 6, Len(bytes)),
                           Insert(frequencies, bytes[1], U32FromBe(SubSeq(bytes, 2, 5))))

deserialize_frequency_table(bytes) == DeserializeChunks(bytes, NewFrequencies)

\* compress after preprocess returned processed and left the Preprocessor p:
\* [ok, payload, frequency_table, serialized_dictionary]; ok is FALSE when
\* build_huffman_tree_with_dictionary(..).unwrap() panics
compress_tail(p, processed) ==
    LET frequencies == dictionary_update(NewFrequencies, processed)
        tree == build_huffman_tree_with_dictionary(frequencies, get_frequencies_order(frequencies))
    IN IF tree = <<>>
       THEN [ok |-> FALSE, payload |-> <<>>, frequency_table |-> <<>>,
             serialized_dictionary |-> <<>>]
       ELSE [ok |-> TRUE,
             payload |-> huffman_encode(processed, generate_huffman_codes(tree[1])),
             frequency_table |-> serialize_frequency_table(frequencies),
             serialized_dictionary |-> serialize_dictionary(p)]

\* decompress: [ok, restorer, out]
decompress(encoded, serialized_dictionary, tree) ==
    LET huffman_decoded_data == huffman_decode(encoded, tree)
        d == deserialize_dictionary(NewPreprocessor, serialized_dictionary)
    IN IF huffman_decoded_data = Panic \/ ~d.ok
       THEN [ok |-> FALSE, restorer |-> d.p, out |-> Panic]
       ELSE LET out == reverse_transform_data(d.p, huffman_decoded_data)
            IN [ok |-> out # Panic, restorer |-> d.p, out |-> out]

----------------------------------------------------------------------------
(* Inputs                                                                   *)

\* bytes of the enumerated buffers: two values that pattern codes also take,
\* a letter, and the escape marker
InputBytes == {1, 2, 97, 255}

Consecutive(from, n) == [i \in 1..n |-> from + i - 1]

\* a buffer of 17 distinct bytes (max pattern length 3) with a repeated run
WideInput == Consecutive(10, 17) \o <<10, 11, 12>>

\* a buffer of 33 distinct bytes (max pattern length 4) with a repeated run
WiderInput == Consecutive(10, 33) \o <<10, 11, 12, 13>>

\* a buffer that two threads split into three chunks of different outputs
ThreeChunkInput == <<97, 98, 97, 97, 98>>

\* buffers handed to compress
CompressInputs == SeqsUpTo(InputBytes, MaxLen) \cup {WideInput, ThreeChunkInput}

\* "abababab"
Abababab == <<97, 98, 97, 98, 97, 98, 97, 98>>

\* 66 distinct bytes twice over: 258 byte sequences of length 1 to 4 occur
\* twice, more than the 254 that get a code
ManyPatternsInput == Consecutive(1, 66) \o Consecutive(1, 66)

\* buffers handed to the preprocessor alone
Inputs == CompressInputs \cup {WiderInput, Abababab}

\* the byte 97 a hundred and one times, then the byte 98 twice: 97 is the one
\* pattern counted more than 100 times
HighFrequencyInput == [i \in 1..101 |-> 97] \o <<98, 98>>

\* buffers whose pattern discovery is looked at on its own
DiscoveryInputs == Inputs \cup {ManyPatternsInput, HighFrequencyInput}

\* buffers of a second preprocess call on the same Preprocessor: a byte twice
AgainInputs == {<<b, b>> : b \in InputBytes}

\* bytes of the buffers the Huffman coder is driven with directly
HuffmanBytes == {97, 98, 99}
HuffmanInputs == SeqsUpTo(HuffmanBytes, MaxTreeData)

\* messages over the bytes of the buffer a tree was built from: the short ones,
\* and the buffer three times over (code bits beyond one byte)
Messages(buf) == SeqsUpTo(Range(buf), MaxLen) \cup {buf \o buf \o buf}

\* payloads not produced by huffman_encode: data bytes, then a trailer 0..8
PayloadBytes == {0, 64, 128, 255}
ForeignPayloads ==
    {body \o <<t>> : body \in SeqsUpTo(PayloadBytes, MaxPayload - 1), t \in 0..8}

\* streams not produced by preprocess: literals, bytes that may be codes, and
\* the escape marker
StreamBytes == {1, 2, 97, 255}
ForeignStreams == SeqsUpTo(StreamBytes, MaxStream)

\* file contents handed to compress_file: text, bytes that are no UTF-8, and
\* bytes that pattern codes also take
ContainerInputs == SeqsUpTo({1, 97, 255}, MaxLen)

\* buffers handed to parallel_transform_data directly
TransformInputs == SeqsUpTo({1, 97}, MaxLen)

\* frequency tables handed to serialize_frequency_table
TableBytes == {1, 97, 255}
\* counts with a nonzero byte in each of the four positions; TLC's integers
\* end at 2^31 - 1, so the top bit of a u32 count is never set
TableCounts == {0, 1, 258, 65536, 2147483647}
Tables == UNION {[S -> TableCounts] : S \in SUBSET TableBytes}

----------------------------------------------------------------------------
(* State shared by the specifications: what a specification does not drive *)
(* stays at these values                                                    *)

CompressIdle ==
    /\ num_threads = 1
    /\ threads = <<>>
    /\ finished = <<>>
    /\ compressed = <<>>
    /\ run = 1
    /\ first_run = <<>>

PreprocessorIdle ==
    /\ preprocessor = NewPreprocessor
    /\ processed_data = <<>>
    /\ decompressed = <<>>
    /\ restorer = NewPreprocessor
    /\ calls = 0

HuffmanIdle ==
    /\ entry_order = <<>>
    /\ huffman_tree = <<>>
    /\ codes = EmptyMap
    /\ encoded_data = <<>>
    /\ decoded_data = <<>>

TablesIdle ==
    /\ table = NewFrequencies
    /\ serialized = <<>>
    /\ table_back = NewFrequencies

ContainerIdle ==
    /\ container = <<>>
    /\ input_file = <<>>
    /\ sections = <<>>
    /\ output_file = <<>>

compressVars == <<num_threads, threads, finished, compressed, run, first_run>>
preprocessorVars == <<preprocessor, processed_data, decompressed, restorer, calls>>
huffmanVars == <<entry_order, huffman_tree, codes, encoded_data, decoded_data>>
tablesVars == <<table, serialized, table_back>>
containerVars == <<container, input_file, sections, output_file>>

----------------------------------------------------------------------------
(* Spec: compress(data) with its worker threads, then decompress with the   *)
(* tree rebuilt from the serialized frequency table; the same buffer is      *)
(* compressed a second time from fresh state                                 *)

Init ==
    /\ pc = "start"
    /\ data \in CompressInputs
    /\ num_threads \in 1..MaxThreads
    /\ threads = <<>>
    /\ finished = <<>>
    /\ compressed = <<>>
    /\ run = 1
    /\ first_run = <<>>
    /\ PreprocessorIdle
    /\ HuffmanIdle
    /\ TablesIdle
    /\ ContainerIdle

\* preprocess up to the spawn of the workers of parallel_transform_data
Preprocess ==
    /\ pc = "start"
    /\ LET p == identify_patterns(
                    [preprocessor EXCEPT !.max_pattern_length = determine_max_pattern_length(data)],
                    data)
           n == NumChunks(data, ChunkSize(p, data, num_threads))
       IN /\ preprocessor' = p
          /\ threads' = [index \in 0..(n - 1) |-> <<>>]
    /\ finished' = <<>>
    /\ calls' = calls + 1
    /\ pc' = "workers"
    /\ UNCHANGED <<data, num_threads, processed_data, compressed, decompressed, restorer,
                   run, first_run, huffmanVars, tablesVars, containerVars>>

\* one worker thread runs transform_data on its chunk, with its clone of the
\* Preprocessor, and completes
WorkerFinish(index) ==
    /\ pc = "workers"
    /\ threads[index] = <<>>
    /\ threads' = [threads EXCEPT ![index] =
                      <<transform_data(preprocessor,
                                       Chunk(data, ChunkSize(preprocessor, data, num_threads), index))>>]
    /\ finished' = Append(finished, index)
    /\ UNCHANGED <<pc, data, num_threads, preprocessor, processed_data, compressed,
                   decompressed, restorer, calls, run, first_run, huffmanVars, tablesVars, containerVars>>

\* the joins of parallel_transform_data and the rest of compress
CompressFinish ==
    /\ pc = "workers"
    /\ \A index \in DOMAIN threads : threads[index] # <<>>
    /\ LET results == [index \in DOMAIN threads |-> threads[index][1]]
           transformed_data == Concat(results, JoinOrder(Len(finished), finished))
           r == compress_tail(preprocessor, transformed_data)
       IN /\ processed_data' = transformed_data
          /\ compressed' = <<r.payload, r.frequency_table, r.serialized_dictionary>>
          /\ pc' = IF r.ok THEN "compressed" ELSE "compress_panicked"
    /\ UNCHANGED <<data, num_threads, preprocessor, threads, finished, decompressed,
                   restorer, calls, run, first_run, huffmanVars, tablesVars, containerVars>>

\* the caller of decompress: the tree is rebuilt from the frequency bytes
Decompress ==
    /\ pc = "compressed"
    /\ LET dictionary == deserialize_frequency_table(compressed[2])
           tree == build_huffman_tree_with_dictionary(dictionary, get_frequencies_order(dictionary))
           r == IF tree = <<>>
                THEN [ok |-> FALSE, restorer |-> NewPreprocessor, out |-> Panic]
                ELSE decompress(compressed[1], compressed[3], tree[1])
       IN /\ decompressed' = r.out
          /\ restorer' = r.restorer
          /\ pc' = IF r.ok THEN "done" ELSE "decompress_panicked"
    /\ UNCHANGED <<data, num_threads, preprocessor, threads, finished, processed_data,
                   compressed, calls, run, first_run, huffmanVars, tablesVars, containerVars>>

\* the same buffer is compressed again, everything fresh
CompressAgain ==
    /\ pc \in {"done", "compress_panicked", "decompress_panicked"}
    /\ run = 1
    /\ run' = 2
    /\ first_run' = <<[pc |-> IF pc = "compress_panicked" THEN pc ELSE "compressed",
                      compressed |-> compressed, finished |-> finished]>>
    /\ pc' = "start"
    /\ preprocessor' = NewPreprocessor
    /\ threads' = <<>>
    /\ finished' = <<>>
    /\ processed_data' = <<>>
    /\ compressed' = <<>>
    /\ decompressed' = <<>>
    /\ restorer' = NewPreprocessor
    /\ calls' = 0
    /\ UNCHANGED <<data, num_threads, huffmanVars, tablesVars, containerVars>>

Next ==
    \/ Preprocess
    \/ \E index \in DOMAIN threads : WorkerFinish(index)
    \/ CompressFinish
    \/ Decompress
    \/ CompressAgain

Spec == Init /\ [][Next]_vars

----------------------------------------------------------------------------
(* SpecHuffman: the Huffman coder driven directly, as tests/huffman.rs does: *)
(* a tree built over a buffer, its codes, a message encoded and decoded, or  *)
(* a payload from elsewhere decoded                                          *)

InitHuffman ==
    /\ pc = "start"
    /\ data \in HuffmanInputs
    /\ entry_order \in Perms(Range(data))
    /\ huffman_tree = <<>>
    /\ codes = EmptyMap
    /\ encoded_data = <<>>
    /\ decoded_data = <<>>
    /\ CompressIdle
    /\ PreprocessorIdle
    /\ TablesIdle
    /\ ContainerIdle

\* build_huffman_tree(data): the HashMap hands its entries over in entry_order
BuildTree ==
    /\ pc = "start"
    /\ huffman_tree' = build_huffman_tree(data, entry_order)
    /\ pc' = IF huffman_tree' = <<>> THEN "no_tree" ELSE "built"
    /\ UNCHANGED <<data, entry_order, codes, encoded_data, decoded_data,
                   compressVars, preprocessorVars, tablesVars, containerVars>>

\* build_huffman_tree_with_dictionary over the table of data, its entries
\* pushed in entry_order
BuildTreeWithDictionary ==
    /\ pc = "start"
    /\ huffman_tree' = build_huffman_tree_with_dictionary(
                           dictionary_update(NewFrequencies, data), entry_order)
    /\ pc' = IF huffman_tree' = <<>> THEN "no_tree" ELSE "built_with_dictionary"
    /\ UNCHANGED <<data, entry_order, codes, encoded_data, decoded_data,
                   compressVars, preprocessorVars, tablesVars, containerVars>>

GenerateHuffmanCodes ==
    /\ pc \in {"built", "built_with_dictionary"}
    /\ codes' = generate_huffman_codes(huffman_tree[1])
    /\ pc' = "coded"
    /\ UNCHANGED <<data, entry_order, huffman_tree, encoded_data, decoded_data,
                   compressVars, preprocessorVars, tablesVars, containerVars>>

\* huffman_encode of a message whose bytes all occur in the tree
HuffmanEncode(message) ==
    /\ pc = "coded"
    /\ processed_data' = message
    /\ encoded_data' = huffman_encode(message, codes)
    /\ pc' = "encoded"
    /\ UNCHANGED <<data, entry_order, huffman_tree, codes, decoded_data, compressVars,
                   preprocessor, decompressed, restorer, calls, tablesVars, containerVars>>

HuffmanDecode ==
    /\ pc = "encoded"
    /\ decoded_data' = huffman_decode(encoded_data, huffman_tree[1])
    /\ pc' = "decoded"
    /\ UNCHANGED <<data, entry_order, huffman_tree, codes, encoded_data, compressVars,
                   preprocessorVars, tablesVars, containerVars>>

\* huffman_decode of a payload that huffman_encode need not have produced
HuffmanDecodeForeign(payload) ==
    /\ pc = "coded"
    /\ encoded_data' = payload
    /\ decoded_data' = huffman_decode(payload, huffman_tree[1])
    /\ pc' = "foreign_decoded"
    /\ UNCHANGED <<data, entry_order, huffman_tree, codes, compressVars,
                   preprocessorVars, tablesVars, containerVars>>

NextHuffman ==
    \/ BuildTree
    \/ BuildTreeWithDictionary
    \/ GenerateHuffmanCodes
    \/ \E message \in Messages(data) : HuffmanEncode(message)
    \/ HuffmanDecode
    \/ \E payload \in ForeignPayloads : HuffmanDecodeForeign(payload)

SpecHuffman == InitHuffman /\ [][NextHuffman]_vars

----------------------------------------------------------------------------
(* SpecPreprocessor: one Preprocessor as tests/preprocessor.rs drives it:    *)
(* preprocess, reverse_transform_data by the same object, and its dictionary *)
(* serialized into a fresh Preprocessor                                      *)

InitPreprocessor ==
    /\ pc = "start"
    /\ data \in Inputs
    /\ num_threads \in 1..MaxThreads
    /\ threads = <<>>
    /\ finished = <<>>
    /\ compressed = <<>>
    /\ run = 1
    /\ first_run = <<>>
    /\ PreprocessorIdle
    /\ HuffmanIdle
    /\ TablesIdle
    /\ ContainerIdle

\* parallel_transform_data once every worker has been joined
parallel_transform_data(p, buf, n_threads) ==
    LET chunk_size == ChunkSize(p, buf, n_threads)
        n == NumChunks(buf, chunk_size)
        results == [index \in 0..(n - 1) |-> transform_data(p, Chunk(buf, chunk_size, index))]
    IN Concat(results, JoinOrder(n, <<>>))

\* the transformed_data vectors that the workers of parallel_transform_data
\* hand to variable_length_encode, joined by chunk index
FirstPass(p, buf, n_threads) ==
    LET chunk_size == ChunkSize(p, buf, n_threads)
        n == NumChunks(buf, chunk_size)
        results == [index \in 0..(n - 1) |-> Substitute(p, Chunk(buf, chunk_size, index), 0)]
    IN Concat(results, JoinOrder(n, <<>>))

\* for each byte of FirstPass, whether it is the code of a matched pattern
FirstPassMatched(p, buf, n_threads) ==
    LET chunk_size == ChunkSize(p, buf, n_threads)
        n == NumChunks(buf, chunk_size)
        results == [index \in 0..(n - 1) |->
                       SubstituteMatched(p, Chunk(buf, chunk_size, index), 0)]
    IN Concat(results, JoinOrder(n, <<>>))

\* Preprocessor::preprocess: [p, out]
preprocess(p, buf, n_threads) ==
    LET q == identify_patterns(
                 [p EXCEPT !.max_pattern_length = determine_max_pattern_length(buf)], buf)
    IN [p |-> q, out |-> parallel_transform_data(q, buf, n_threads)]

PreprocessCall ==
    /\ pc = "start"
    /\ LET r == preprocess(preprocessor, data, num_threads)
       IN /\ preprocessor' = r.p
          /\ processed_data' = r.out
    /\ calls' = calls + 1
    /\ pc' = "preprocessed"
    /\ UNCHANGED <<data, decompressed, restorer, compressVars, huffmanVars, tablesVars, containerVars>>

\* the same Preprocessor is given a second buffer
PreprocessAgain(buf) ==
    /\ pc \in {"preprocessed", "reversed"}
    /\ calls < MaxCalls
    /\ data' = buf
    /\ LET r == preprocess(preprocessor, buf, num_threads)
       IN /\ preprocessor' = r.p
          /\ processed_data' = r.out
    /\ calls' = calls + 1
    /\ pc' = "preprocessed"
    /\ UNCHANGED <<decompressed, restorer, compressVars, huffmanVars, tablesVars, containerVars>>

ReverseTransformCall ==
    /\ pc = "preprocessed"
    /\ decompressed' = reverse_transform_data(preprocessor, processed_data)
    /\ pc' = "reversed"
    /\ UNCHANGED <<data, preprocessor, processed_data, restorer, calls, compressVars,
                   huffmanVars, tablesVars, containerVars>>

\* reverse_transform_data of a stream that preprocess need not have produced,
\* by a fresh Preprocessor or by one that has preprocessed one buffer
ReverseTransformForeign(stream) ==
    /\ pc \in {"start", "preprocessed"}
    /\ calls <= 1
    /\ data' = stream
    /\ processed_data' = stream
    /\ decompressed' = reverse_transform_data(preprocessor, stream)
    /\ pc' = "foreign_reversed"
    /\ UNCHANGED <<preprocessor, restorer, calls, compressVars, huffmanVars,
                   tablesVars, containerVars>>

\* parallel_transform_data called directly, on a fresh Preprocessor or on one
\* whose table the preprocess of one buffer built
ParallelTransformCall(buf) ==
    /\ pc \in {"start", "preprocessed"}
    /\ calls <= 1
    /\ data' = buf
    /\ processed_data' = parallel_transform_data(preprocessor, buf, num_threads)
    /\ pc' = "transformed"
    /\ UNCHANGED <<preprocessor, decompressed, restorer, calls, compressVars, huffmanVars,
                   tablesVars, containerVars>>

SerializeDictionaryCall ==
    /\ pc \in {"preprocessed", "reversed"}
    /\ serialized' = serialize_dictionary(preprocessor)
    /\ pc' = "serialized"
    /\ UNCHANGED <<data, preprocessorVars, compressVars, huffmanVars, table, table_back, containerVars>>

\* a fresh Preprocessor deserializes the bytes
DeserializeDictionaryCall ==
    /\ pc = "serialized"
    /\ LET r == deserialize_dictionary(NewPreprocessor, serialized)
       IN /\ restorer' = r.p
          /\ pc' = IF r.ok THEN "deserialized" ELSE "deserialize_panicked"
    /\ UNCHANGED <<data, preprocessor, processed_data, decompressed, calls, compressVars,
                   huffmanVars, tablesVars, containerVars>>

NextPreprocessor ==
    \/ PreprocessCall
    \/ \E buf \in AgainInputs : PreprocessAgain(buf)
    \/ ReverseTransformCall
    \/ \E stream \in ForeignStreams : ReverseTransformForeign(stream)
    \/ \E buf \in TransformInputs : ParallelTransformCall(buf)
    \/ SerializeDictionaryCall
    \/ DeserializeDictionaryCall

SpecPreprocessor == InitPreprocessor /\ [][NextPreprocessor]_vars

----------------------------------------------------------------------------
(* SpecDiscovery: a fresh Preprocessor preprocesses one buffer, among them   *)
(* one with more repeated byte sequences than there are codes, and reverses  *)
(* its own output                                                            *)

InitDiscovery ==
    /\ pc = "start"
    /\ data \in DiscoveryInputs
    /\ num_threads \in 1..MaxThreads
    /\ threads = <<>>
    /\ finished = <<>>
    /\ compressed = <<>>
    /\ run = 1
    /\ first_run = <<>>
    /\ PreprocessorIdle
    /\ HuffmanIdle
    /\ TablesIdle
    /\ ContainerIdle

NextDiscovery ==
    \/ PreprocessCall
    \/ ReverseTransformCall

SpecDiscovery == InitDiscovery /\ [][NextDiscovery]_vars

----------------------------------------------------------------------------
(* SpecTables: serialize_frequency_table and deserialize_frequency_table on  *)
(* a frequency table filled in through the public frequencies field          *)

InitTables ==
    /\ pc = "start"
    /\ data = <<>>
    /\ table \in Tables
    /\ serialized = <<>>
    /\ table_back = NewFrequencies
    /\ CompressIdle
    /\ PreprocessorIdle
    /\ HuffmanIdle
    /\ ContainerIdle

SerializeFrequencyTable ==
    /\ pc = "start"
    /\ serialized' = serialize_frequency_table(table)
    /\ pc' = "serialized"
    /\ UNCHANGED <<data, table, table_back, compressVars, preprocessorVars, huffmanVars,
                   containerVars>>

DeserializeFrequencyTable ==
    /\ pc = "serialized"
    /\ table_back' = deserialize_frequency_table(serialized)
    /\ pc' = "deserialized"
    /\ UNCHANGED <<data, table, serialized, compressVars, preprocessorVars, huffmanVars,
                   containerVars>>

NextTables ==
    \/ SerializeFrequencyTable
    \/ DeserializeFrequencyTable

SpecTables == InitTables /\ [][NextTables]_vars

----------------------------------------------------------------------------
(* SpecContainer: compress_file writes the container of a buffer, and       *)
(* decompress_file reads that container or a truncation of it                *)

\* compress(data), all of it: [ok, payload, frequency_table, serialized_dictionary]
compress(buf, n_threads) ==
    LET r == preprocess(NewPreprocessor, buf, n_threads)
    IN compress_tail(r.p, r.out)

\* the bytes compress_file writes: Option, None when compress panics
compress_file(contents, n_threads) ==
    LET r == compress(contents, n_threads)
    IN IF ~r.ok THEN <<>>
       ELSE <<U32ToBe(Len(r.frequency_table)) \o r.frequency_table
              \o U32ToBe(Len(r.serialized_dictionary)) \o r.serialized_dictionary
              \o r.payload>>

\* slice::split_at(mid) where mid <= len
SplitAt(s, mid) == <<SubSeq(s, 1, mid), SubSeq(s, mid + 1, Len(s))>>

\* the four split_at calls of decompress_file: Option<the three sections>,
\* None when one of them panics (mid > len)
SplitContainer(contents) ==
    IF Len(contents) < 4 THEN <<>>
    ELSE LET first == SplitAt(contents, 4)
             frequency_table_size == U32FromBe(first[1])
         IN IF frequency_table_size > Len(first[2]) THEN <<>>
            ELSE LET second == SplitAt(first[2], frequency_table_size)
                 IN IF Len(second[2]) < 4 THEN <<>>
                    ELSE LET third == SplitAt(second[2], 4)
                             dictionary_size == U32FromBe(third[1])
                         IN IF dictionary_size > Len(third[2]) THEN <<>>
                            ELSE LET fourth == SplitAt(third[2], dictionary_size)
                                 IN <<(<<second[1], fourth[1], fourth[2]>>)>>

\* a UTF-8 continuation byte within lo..hi at position i of s
Continuation(s, i, lo, hi) == i <= Len(s) /\ s[i] >= lo /\ s[i] <= hi

\* str::from_utf8(s).is_ok()
RECURSIVE IsUtf8(_)
IsUtf8(s) ==
    IF s = <<>> THEN TRUE
    ELSE LET b == s[1]
             width == IF b < 128 THEN 1
                      ELSE IF b >= 194 /\ b <= 223 THEN 2
                      ELSE IF b >= 224 /\ b <= 239 THEN 3
                      ELSE IF b >= 240 /\ b <= 244 THEN 4
                      ELSE 0
             second_lo == IF b = 224 THEN 160 ELSE IF b = 240 THEN 144 ELSE 128
             second_hi == IF b = 237 THEN 159 ELSE IF b = 244 THEN 143 ELSE 191
         IN /\ width > 0
            /\ width >= 2 => Continuation(s, 2, second_lo, second_hi)
            /\ width >= 3 => Continuation(s, 3, 128, 191)
            /\ width >= 4 => Continuation(s, 4, 128, 191)
            /\ IsUtf8(SubSeq(s, width + 1, Len(s)))

\* decompress_file on the bytes of its input file: outcome is "ok" (Ok(())),
\* "err" (an Err returned to the caller) or "panic"
decompress_file(contents) ==
    LET split == SplitContainer(contents)
    IN IF split = <<>>
       THEN [outcome |-> "panic", sections |-> <<>>, output |-> <<>>]
       ELSE LET dictionary == deserialize_frequency_table(split[1][1])
                tree == build_huffman_tree_with_dictionary(
                            dictionary, get_frequencies_order(dictionary))
            IN IF tree = <<>>
               THEN [outcome |-> "panic", sections |-> split, output |-> <<>>]
               ELSE LET r == decompress(split[1][3], split[1][2], tree[1])
                    IN IF ~r.ok
                       THEN [outcome |-> "panic", sections |-> split, output |-> <<>>]
                       ELSE IF ~IsUtf8(r.out)
                            THEN [outcome |-> "err", sections |-> split, output |-> <<>>]
                            ELSE [outcome |-> "ok", sections |-> split, output |-> <<r.out>>]

\* what decompress_file is given: the file compress_file wrote, or that file
\* cut short anywhere before its payload (within a length prefix or a table)
ContainerFiles ==
    IF container = <<>> THEN {}
    ELSE LET payload_at == 8 + Len(compressed[2]) + Len(compressed[3])
         IN {container[1]} \cup {SubSeq(container[1], 1, n) : n \in 0..(payload_at - 1)}

InitContainer ==
    /\ pc = "start"
    /\ data \in ContainerInputs
    /\ num_threads \in 1..MaxThreads
    /\ threads = <<>>
    /\ finished = <<>>
    /\ compressed = <<>>
    /\ run = 1
    /\ first_run = <<>>
    /\ PreprocessorIdle
    /\ HuffmanIdle
    /\ TablesIdle
    /\ ContainerIdle

CompressFile ==
    /\ pc = "start"
    /\ LET r == compress(data, num_threads)
       IN compressed' = <<r.payload, r.frequency_table, r.serialized_dictionary>>
    /\ container' = compress_file(data, num_threads)
    /\ pc' = IF container' = <<>> THEN "compress_file_panicked" ELSE "file_compressed"
    /\ UNCHANGED <<data, num_threads, threads, finished, run, first_run, preprocessorVars,
                   huffmanVars, tablesVars, input_file, sections, output_file>>

DecompressFile(contents) ==
    /\ pc = "file_compressed"
    /\ input_file' = contents
    /\ LET r == decompress_file(contents)
       IN /\ sections' = r.sections
          /\ output_file' = r.output
          /\ pc' = CASE r.outcome = "ok" -> "file_decompressed"
                     [] r.outcome = "err" -> "decompress_file_err"
                     [] OTHER -> "decompress_file_panicked"
    /\ UNCHANGED <<data, compressVars, preprocessorVars, huffmanVars, tablesVars, container>>

NextContainer ==
    \/ CompressFile
    \/ \E contents \in ContainerFiles : DecompressFile(contents)

SpecContainer == InitContainer /\ [][NextContainer]_vars

----------------------------------------------------------------------------
(* Claims                                                                   *)

CompressReturned == pc \in {"compressed", "done", "decompress_panicked"}
CompressEnded == CompressReturned \/ pc = "compress_panicked"
DecompressEnded == pc \in {"done", "decompress_panicked"}

\* C1: for every buffer d, decompress of compress(d), with the tree rebuilt
\* from the serialized frequency table, returns exactly d.
C1_RoundTrip ==
    (pc = "compress_panicked" \/ DecompressEnded) => (pc = "done" /\ decompressed = data)

C3_OrderIndependentCodes ==
    /\ pc = "built_with_dictionary" =>
          generate_huffman_codes(huffman_tree[1]) =
              generate_huffman_codes(
                  build_huffman_tree_with_dictionary(
                      dictionary_update(NewFrequencies, data), Ascending(Range(data)))[1])
    /\ pc = "built" =>
          generate_huffman_codes(huffman_tree[1]) =
              generate_huffman_codes(build_huffman_tree(data, Ascending(Range(data)))[1])

\* C4: reverse_transform_data by a fresh Preprocessor p of p.preprocess(d)
\* returns exactly d.
C4_ReverseInvertsPreprocess ==
    (pc = "reversed" /\ calls = 1) => decompressed = data

\* C5: with a tree built from a buffer of at least two distinct byte values,
\* decoding the encoding of any message over the tree's bytes returns the
\* message, whether or not the number of code bits is a multiple of 8.
C5_HuffmanRoundTrip ==
    (pc = "decoded" /\ Cardinality(Range(data)) >= 2) => decoded_data = processed_data

\* C5 witness: a decoded message whose code bits fill whole bytes exactly
C5_Witness ==
    /\ pc = "decoded"
    /\ Cardinality(Range(data)) >= 2
    /\ Len(encoded_data) = 2
    /\ encoded_data[2] = 8
    /\ Len(processed_data) >= 4

\* C6: compress of the empty buffer completes with an empty Huffman payload and
\* an empty serialized pattern table, and decompress of it returns the empty
\* buffer.
C6_EmptyInput ==
    (data = <<>> /\ (CompressEnded \/ DecompressEnded)) =>
        /\ CompressReturned
        /\ compressed[1] = <<>>
        /\ compressed[3] = <<>>
        /\ DecompressEnded => (pc = "done" /\ decompressed = <<>>)

\* C7: over n >= 1 copies of one byte b the tree is a single leaf holding b with
\* frequency n, the code map is {b: empty}, and encoding the buffer then
\* decoding it returns all n bytes.
C7_SingleRepeatedByte ==
    (Cardinality(Range(data)) = 1 /\ pc = "decoded" /\ processed_data = data) =>
        /\ huffman_tree = <<HuffmanNode(Len(data), data[1], <<>>, <<>>)>>
        /\ codes = (data[1] :> <<>>)
        /\ decoded_data = data

\* C8 as stated: for any frequency table t, counts of 0 included,
\* deserialize_frequency_table(serialize_frequency_table(t)) equals t.
C8_TableRoundTrip ==
    pc = "deserialized" => table_back = table

\* the entries of a table with a nonzero count
NonZeroEntries(t) == [b \in {x \in DOMAIN t : t[x] > 0} |-> t[b]]

\* C8 amended: deserialize_frequency_table(serialize_frequency_table(t)) is t
\* without its entries of count 0, so it equals t when no count of t is 0.
C8_TableRoundTripNonZero ==
    pc = "deserialized" =>
        /\ table_back = NonZeroEntries(table)
        /\ (\A b \in DOMAIN table : table[b] > 0) => table_back = table

\* C8 witness: a table of several nonzero counts, one wider than a byte, is back
C8_Witness ==
    /\ pc = "deserialized"
    /\ Cardinality(DOMAIN table) >= 2
    /\ \A b \in DOMAIN table : table[b] > 0
    /\ \E b \in DOMAIN table : table[b] > 255
    /\ table_back = table

\* C9: a fresh Preprocessor that deserializes the serialized dictionary of a
\* Preprocessor p whose table preprocess built has p's pattern_map and p's
\* reverse_pattern_map.
C9_DictionaryRoundTrip ==
    /\ pc # "deserialize_panicked"
    /\ pc = "deserialized" =>
          /\ restorer.pattern_map = preprocessor.pattern_map
          /\ restorer.reverse_pattern_map = preprocessor.reverse_pattern_map

\* C9 witness: the table holds a two-byte pattern and a pattern that two
\* preprocess calls gave two codes
C9_Witness ==
    /\ pc = "deserialized"
    /\ calls = 2
    /\ \E pattern \in DOMAIN preprocessor.pattern_map : Len(pattern) = 2
    /\ \E c1, c2 \in DOMAIN preprocessor.reverse_pattern_map :
          c1 # c2 /\ preprocessor.reverse_pattern_map[c1] = preprocessor.reverse_pattern_map[c2]

\* the meaningful bits of a payload are complete root-to-leaf walks of the tree
CompleteWalks(encoded, tree) ==
    LET w == Walk(PayloadBits(encoded), tree, tree, <<>>)
    IN ~w.failed /\ w.node = tree

\* C10: huffman_decode of a payload whose meaningful bits are not complete
\* root-to-leaf walks (they end at an internal node, or descend from a leaf)
\* fails; it returns no byte sequence.
C10_BadPayloadFails ==
    (pc = "foreign_decoded" /\ ~CompleteWalks(encoded_data, huffman_tree[1])) =>
        decoded_data = Panic

\* the walk of reverse_transform_data from position i meets an escape marker
\* that is the last byte, or whose following byte is no code of the reverse
\* pattern table
RECURSIVE BadEscape(_, _, _)
BadEscape(p, buf, i) ==
    IF i >= Len(buf) THEN FALSE
    ELSE IF buf[i + 1] = 255
         THEN \/ i + 1 >= Len(buf)
              \/ buf[i + 2] \notin DOMAIN p.reverse_pattern_map
              \/ BadEscape(p, buf, i + 2)
         ELSE BadEscape(p, buf, i + 1)

\* C11: reverse_transform_data of a stream in which the escape marker is the
\* last byte, or is followed by a byte without entry in the reverse pattern
\* table, fails; it returns no output with those bytes dropped.
C11_BadEscapeFails ==
    (pc = "foreign_reversed" /\ BadEscape(preprocessor, processed_data, 0)) =>
        decompressed = Panic

DecompressFileEnded ==
    pc \in {"file_decompressed", "decompress_file_err", "decompress_file_panicked"}

\* the container is shorter than a length prefix, or a length prefix exceeds
\* the bytes that remain after it
Truncated(contents) ==
    \/ Len(contents) < 4
    \/ LET freq_len == U32FromBe(SubSeq(contents, 1, 4))
       IN \/ 4 + freq_len > Len(contents)
          \/ 4 + freq_len + 4 > Len(contents)
          \/ 4 + freq_len + 4 + U32FromBe(SubSeq(contents, 4 + freq_len + 1, 4 + freq_len + 4))
                 > Len(contents)

\* C12: decompress_file of a container shorter than a length prefix, or with a
\* length prefix that exceeds the remaining bytes, returns an error result and
\* writes no output file; and the container compress_file wrote is split into
\* the frequency bytes, pattern bytes and payload that compress returned.
C12_ContainerParse ==
    DecompressFileEnded =>
        /\ Truncated(input_file) => (pc = "decompress_file_err" /\ output_file = <<>>)
        /\ input_file = container[1] =>
               sections = <<(<<compressed[2], compressed[3], compressed[1]>>)>>

\* the transform_data outputs of the chunks from chunk index on, in ascending
\* index order, each once
RECURSIVE ChunkOutputsFrom(_, _, _, _)
ChunkOutputsFrom(p, buf, chunk_size, index) ==
    IF index * chunk_size >= Len(buf) THEN <<>>
    ELSE transform_data(p, Chunk(buf, chunk_size, index))
         \o ChunkOutputsFrom(p, buf, chunk_size, index + 1)

\* the Preprocessor as preprocess leaves it before it spawns the workers
TablesBeforeSpawn ==
    identify_patterns(
        [NewPreprocessor EXCEPT !.max_pattern_length = determine_max_pattern_length(data)],
        data)

\* C13: whatever the order in which the workers finish, parallel_transform_data
\* returns the chunks' transform outputs concatenated in ascending chunk index
\* order, each present once, and the workers leave the pattern tables as they
\* were when the workers were spawned.
C13_JoinedByChunkIndex ==
    /\ pc = "workers" => preprocessor = TablesBeforeSpawn
    /\ CompressEnded =>
          /\ preprocessor = TablesBeforeSpawn
          /\ processed_data =
                 ChunkOutputsFrom(preprocessor, data,
                                  ChunkSize(preprocessor, data, num_threads), 0)

\* C13 witness: three workers with three different outputs finished in an
\* order that is not the order of their chunks
C13_Witness ==
    /\ CompressEnded
    /\ Len(finished) = 3
    /\ finished # <<0, 1, 2>>
    /\ Cardinality({threads[index] : index \in DOMAIN threads}) = 3
    /\ processed_data # <<>>

\* the greedy pass of transform_data over the whole buffer, from position i,
\* chooses a match that lies across a multiple of chunk_size
RECURSIVE SpansBoundary(_, _, _, _)
SpansBoundary(p, buf, i, chunk_size) ==
    IF i >= Len(buf) THEN FALSE
    ELSE LET sizes == MatchSizes(p, buf, i)
         IN IF sizes = {} THEN SpansBoundary(p, buf, i + 1, chunk_size)
            ELSE LET size == CHOOSE s \in sizes : \A t \in sizes : t <= s
                 IN \/ \E k \in 1..Len(buf) : i < k * chunk_size /\ k * chunk_size < i + size
                    \/ SpansBoundary(p, buf, i + size, chunk_size)

\* C14: parallel_transform_data(d) equals transform_data(d) whenever no match
\* that the single-threaded greedy pass chooses spans a chunk boundary, and so
\* for every d when the pattern table is empty.
C14_ParallelEqualsSequential ==
    pc \in {"preprocessed", "transformed"} =>
        /\ ~SpansBoundary(preprocessor, data, 0, ChunkSize(preprocessor, data, num_threads))
              => processed_data = transform_data(preprocessor, data)
        /\ preprocessor.pattern_map = EmptyMap
              => processed_data = transform_data(preprocessor, data)

\* C14 witness: a buffer split into chunks, the last one shorter, in which the
\* greedy pass substitutes a pattern and no match spans a boundary
C14_Witness ==
    /\ pc = "transformed"
    /\ Len(data) % ChunkSize(preprocessor, data, num_threads) # 0
    /\ NumChunks(data, ChunkSize(preprocessor, data, num_threads)) >= 2
    /\ Substitute(preprocessor, data, 0) # data
    /\ ~SpansBoundary(preprocessor, data, 0, ChunkSize(preprocessor, data, num_threads))
    /\ processed_data = transform_data(preprocessor, data)

\* C15 as stated: for d = "abababab" (max pattern length 2) a fresh
\* Preprocessor finds the pattern "ab" with frequency 4 under code 1, and
\* transform(d) is four times the byte of code 1.
C15_AbababGetsCodeOne ==
    (pc = "preprocessed" /\ calls = 1 /\ data = Abababab) =>
        /\ preprocessor.max_pattern_length = 2
        /\ <<97, 98>> \in DOMAIN preprocessor.pattern_map
        /\ preprocessor.pattern_map[<<97, 98>>] = 1
        /\ preprocessor.code_frequency[1] = 4
        /\ transform_data(preprocessor, data) = <<1, 1, 1, 1>>

\* C15 amended: for d = "abababab" (max pattern length 2) a fresh Preprocessor
\* finds "a", "ab", "b" with frequency 4 and "ba" with frequency 3; code 1 goes
\* to "a" (it sorts before "ab"), "ab" gets code 2, and transform(d) is four
\* times the byte 2.
C15_AbababGetsCodeTwo ==
    (pc = "preprocessed" /\ calls = 1 /\ data = Abababab) =>
        /\ preprocessor.max_pattern_length = 2
        /\ preprocessor.pattern_map =
               (<<97>> :> 1) @@ (<<97, 98>> :> 2) @@ (<<98>> :> 3) @@ (<<98, 97>> :> 4)
        /\ preprocessor.code_frequency = (1 :> 4) @@ (2 :> 4) @@ (3 :> 4) @@ (4 :> 3)
        /\ transform_data(preprocessor, data) = <<2, 2, 2, 2>>
        /\ num_threads = 1 => processed_data = <<2, 2, 2, 2>>

\* C15 witness: preprocess of "abababab" by a fresh Preprocessor has returned
C15_Witness ==
    /\ pc = "preprocessed"
    /\ calls = 1
    /\ data = Abababab
    /\ num_threads = 1
    /\ processed_data = <<2, 2, 2, 2>>

\* some byte sequence of length 2 up to max_len occurs more than once in buf
HasRepeatedSequence(buf, max_len) ==
    \E size \in 2..max_len : \E w \in Windows(buf, size) : WindowCount(buf, w) > 1

\* C16: when some byte sequence of length 2 up to the max pattern length occurs
\* more than once in the input, preprocess on a fresh Preprocessor returns a
\* stream strictly shorter than the input.
C16_RepeatsShrink ==
    (/\ pc = "preprocessed"
     /\ calls = 1
     /\ HasRepeatedSequence(data, determine_max_pattern_length(data)))
        => Len(processed_data) < Len(data)

\* C17 as stated: a Preprocessor whose reverse pattern table is empty returns
\* every byte sequence unchanged from reverse_transform_data.
C17_EmptyTableIsIdentity ==
    (pc = "foreign_reversed" /\ preprocessor.reverse_pattern_map = EmptyMap) =>
        decompressed = processed_data

\* C17 amended: a Preprocessor whose reverse pattern table is empty returns
\* every byte sequence without the byte 0xFF unchanged; a sequence with 0xFF
\* loses the marker and the byte after it, or the call panics when the marker
\* is the last byte.
C17_EmptyTableIsIdentityWithoutMarker ==
    (pc = "foreign_reversed" /\ preprocessor.reverse_pattern_map = EmptyMap) =>
        /\ 255 \notin Range(processed_data) => decompressed = processed_data
        /\ 255 \in Range(processed_data) => decompressed # processed_data

\* C17 witness: two literals, one of them a byte that a code could take, came
\* back from a Preprocessor with an empty table
C17_Witness ==
    /\ pc = "foreign_reversed"
    /\ preprocessor.reverse_pattern_map = EmptyMap
    /\ processed_data = <<1, 97>>
    /\ decompressed = <<1, 97>>

\* pattern_map and reverse_pattern_map of p are inverse bijections over at most
\* 254 codes, all within 1..254
TablesAreBijective(p) ==
    /\ \A pattern \in DOMAIN p.pattern_map :
          /\ p.pattern_map[pattern] \in DOMAIN p.reverse_pattern_map
          /\ p.reverse_pattern_map[p.pattern_map[pattern]] = pattern
    /\ \A code \in DOMAIN p.reverse_pattern_map :
          /\ p.reverse_pattern_map[code] \in DOMAIN p.pattern_map
          /\ p.pattern_map[p.reverse_pattern_map[code]] = code
    /\ Cardinality(DOMAIN p.reverse_pattern_map) <= 254
    /\ DOMAIN p.reverse_pattern_map \subseteq 1..254

\* C18: in every state a Preprocessor reaches by preprocess and
\* deserialize_dictionary calls, pattern_map and reverse_pattern_map are
\* inverse bijections, the table holds at most 254 codes, and every code lies
\* in 1..254.
C18_TablesStayBijective ==
    /\ TablesAreBijective(preprocessor)
    /\ TablesAreBijective(restorer)

\* bit j (from 0) of a packed byte sequence, the most significant bit of each
\* byte first
PackedBit(bytes, j) == (bytes[(j \div 8) + 1] \div Pow2(7 - (j % 8))) % 2

\* the ceil(L/8) bytes before the trailer hold the L code bits most significant
\* bit first, the rest of the last byte zero
PacksBits(encoded, bits) ==
    LET n == (Len(bits) + 7) \div 8
    IN /\ Len(encoded) = n + 1
       /\ \A j \in 0..(8 * n - 1) :
             PackedBit(encoded, j) = IF j < Len(bits) THEN bits[j + 1] ELSE 0

Survivors(buf, max_len) ==
    {w \in UNION {Windows(buf, size) : size \in 1..max_len} : WindowCount(buf, w) > 1}

\* pattern a of frequency fa comes before pattern b of frequency fb: higher
\* frequency first, ties in ascending lexicographic byte order
ComesBefore(a, fa, b, fb) == fa > fb \/ (fa = fb /\ LexLess(a, b))

\* C20: pattern discovery on a fresh Preprocessor counts every contiguous
\* subsequence of length 1 up to the max pattern length, drops those that occur
\* at most once, orders the rest by descending frequency, ties by ascending
\* lexicographic byte order, and gives the first min(254, survivors) of them
\* the codes 1, 2, 3, ... in that order, each one's frequency recorded under
\* its code.
C20_DiscoveryOrder ==
    (pc = "preprocessed" /\ calls = 1) =>
        LET p == preprocessor
            survivors == Survivors(data, determine_max_pattern_length(data))
            n == Min(254, Cardinality(survivors))
        IN /\ p.next_code = n + 1
           /\ DOMAIN p.reverse_pattern_map = 1..n
           /\ DOMAIN p.code_frequency = 1..n
           /\ DOMAIN p.pattern_map = {p.reverse_pattern_map[code] : code \in 1..n}
           /\ DOMAIN p.pattern_map \subseteq survivors
           /\ \A code \in 1..n :
                 /\ p.pattern_map[p.reverse_pattern_map[code]] = code
                 /\ p.code_frequency[code] = WindowCount(data, p.reverse_pattern_map[code])
           /\ \A code \in 1..(n - 1) :
                 ComesBefore(p.reverse_pattern_map[code], p.code_frequency[code],
                             p.reverse_pattern_map[code + 1], p.code_frequency[code + 1])
           /\ \A w \in survivors \ DOMAIN p.pattern_map :
                 ComesBefore(p.reverse_pattern_map[n], p.code_frequency[n],
                             w, WindowCount(data, w))

\* C20 witness: more than 254 subsequences survived and 254 of them have codes
C20_Witness ==
    /\ pc = "preprocessed"
    /\ calls = 1
    /\ Cardinality(Survivors(data, determine_max_pattern_length(data))) > 254
    /\ Cardinality(DOMAIN preprocessor.pattern_map) = 254
    /\ preprocessor.next_code = 255

\* the byte has a code in pattern_map as a pattern of one byte
HasSingleByteCode(p, byte) == <<byte>> \in DOMAIN p.pattern_map

\* the frequency recorded for the code of a single-byte pattern
RecordedFrequency(p, byte) ==
    LET code == p.pattern_map[<<byte>>]
    IN IF code \in DOMAIN p.code_frequency THEN p.code_frequency[code] ELSE 1

\* what the re-encoding pass is said to emit for one byte of its input
Emitted(p, byte) ==
    IF ~HasSingleByteCode(p, byte) THEN <<byte>>
    ELSE IF RecordedFrequency(p, byte) > 100
         THEN <<p.pattern_map[<<byte>>] % 256>>
         ELSE <<255, p.pattern_map[<<byte>>] % 256>>

\* out is the pieces (of one or two bytes each) laid end to end
LaidEndToEnd(out, pieces) ==
    LET Offset(j) == (j - 1) + Cardinality({k \in 1..(j - 1) : Len(pieces[k]) = 2})
    IN /\ Len(out) = Offset(Len(pieces) + 1)
       /\ \A j \in 1..Len(pieces) :
             SubSeq(out, Offset(j) + 1, Offset(j) + Len(pieces[j])) = pieces[j]

\* C21 as stated: in the re-encoding pass over the output of transform, a byte
\* with a single-byte-pattern code of recorded frequency above 100 is emitted
\* as one byte, every other byte with a single-byte-pattern code as 0xFF and
\* the code byte, and every byte without a pattern mapping, the code bytes that
\* transform emitted for multi-byte patterns among them, passes through
\* unchanged.
C21_CodeBytesPassThrough ==
    (pc = "preprocessed" /\ calls = 1) =>
        LET p == preprocessor
            t == FirstPass(p, data, num_threads)
            matched == FirstPassMatched(p, data, num_threads)
        IN LaidEndToEnd(processed_data,
                        [j \in 1..Len(t) |-> IF matched[j] THEN <<t[j]>> ELSE Emitted(p, t[j])])

\* C21, what the pass does: it goes by the value of each byte.  A byte
\* whose value has a single-byte-pattern code of recorded frequency above 100
\* is emitted as the code byte alone, any other byte whose value has a
\* single-byte-pattern code as 0xFF and the code byte, and a byte whose value
\* has none passes through unchanged; a code byte that transform emitted for a
\* multi-byte pattern is treated like any other byte of that value.
C21_ReencodedByValue ==
    (pc = "preprocessed" /\ calls = 1) =>
        LET p == preprocessor
            t == FirstPass(p, data, num_threads)
        IN LaidEndToEnd(processed_data, [j \in 1..Len(t) |-> Emitted(p, t[j])])

\* C21, the three cases together: the pass met a byte with a single-byte code of frequency above
\* 100, one with a single-byte code of lower frequency, and the code byte of
\* a multi-byte pattern with no mapping
C21_Witness ==
    /\ pc = "preprocessed"
    /\ calls = 1
    /\ LET p == preprocessor
           t == FirstPass(p, data, num_threads)
           matched == FirstPassMatched(p, data, num_threads)
       IN /\ \E j \in 1..Len(t) :
                HasSingleByteCode(p, t[j]) /\ RecordedFrequency(p, t[j]) > 100
          /\ \E j \in 1..Len(t) :
                HasSingleByteCode(p, t[j]) /\ RecordedFrequency(p, t[j]) <= 100
          /\ \E j \in 1..Len(t) : matched[j] /\ ~HasSingleByteCode(p, t[j])

\* C21, the failing case: the code byte of a multi-byte pattern whose value has a
\* single-byte code was re-encoded
C21_CodeByteReencoded ==
    /\ pc = "preprocessed"
    /\ calls = 1
    /\ LET p == preprocessor
           t == FirstPass(p, data, num_threads)
           matched == FirstPassMatched(p, data, num_threads)
       IN \E j \in 1..Len(t) : matched[j] /\ HasSingleByteCode(p, t[j])

====
